---------------------------- MODULE Spec2Model ----------------------------
(***************************************************************************)
(* Model of src/main.rs: an axum server over one shared DuckDB connection  *)
(* (AppState.db, an Arc<Mutex<Connection>>) with three handlers,           *)
(* get_candles, get_indicators and get_fib.                                *)
(*                                                                         *)
(* Prices are f64 in the program.  They are modelled as IEEE-754 binary64  *)
(* values: a sign, an integer significand held as a multi-limb natural     *)
(* and a binary exponent, with every subtraction and multiplication        *)
(* rounded to 53 significant bits, ties to even.  The inputs stay far from *)
(* the exponent limits of binary64, so overflow, subnormals, infinities    *)
(* and NaN are not represented.                                            *)
(***************************************************************************)
EXTENDS Integers, Naturals, Sequences, FiniteSets, TLC

(***************************************************************************)
(* Multi-limb naturals: little-endian sequences of limbs below Base, no    *)
(* leading zero limb, << >> for zero.  They carry the 53-bit significands  *)
(* and the 106-bit exact products of f64 arithmetic.                       *)
(***************************************************************************)
Pow2(n) == 2 ^ n

Base == Pow2(15)

RECURSIVE BNorm(_)
BNorm(a) ==
    IF a = << >> THEN << >>
    ELSE IF a[Len(a)] = 0 THEN BNorm(SubSeq(a, 1, Len(a) - 1))
    ELSE a

RECURSIVE BFromNat(_)
BFromNat(n) ==
    IF n = 0 THEN << >> ELSE <<n % Base>> \o BFromNat(n \div Base)

RECURSIVE BAddC(_, _, _)
BAddC(a, b, c) ==
    IF a = << >> /\ b = << >>
    THEN (IF c = 0 THEN << >> ELSE <<c>>)
    ELSE LET x == (IF a = << >> THEN 0 ELSE Head(a))
                  + (IF b = << >> THEN 0 ELSE Head(b)) + c
         IN  <<x % Base>> \o BAddC(IF a = << >> THEN << >> ELSE Tail(a),
                                   IF b = << >> THEN << >> ELSE Tail(b),
                                   x \div Base)

BAdd(a, b) == BAddC(a, b, 0)

\* a - b for a >= b, before the leading zero limbs are removed.
RECURSIVE BSubB(_, _, _)
BSubB(a, b, borrow) ==
    IF a = << >> THEN << >>
    ELSE LET x == Head(a) - (IF b = << >> THEN 0 ELSE Head(b)) - borrow
         IN  <<x % Base>> \o BSubB(Tail(a),
                                   IF b = << >> THEN << >> ELSE Tail(b),
                                   IF x < 0 THEN 1 ELSE 0)

BSub(a, b) == BNorm(BSubB(a, b, 0))

\* The sign of a - b: -1, 0 or 1.
RECURSIVE BCmpAt(_, _, _)
BCmpAt(a, b, i) ==
    IF i = 0 THEN 0
    ELSE IF a[i] > b[i] THEN 1
    ELSE IF a[i] < b[i] THEN -1
    ELSE BCmpAt(a, b, i - 1)

BCmp(a, b) ==
    IF Len(a) > Len(b) THEN 1
    ELSE IF Len(a) < Len(b) THEN -1
    ELSE BCmpAt(a, b, Len(a))

\* a * m + c for a limb m < Base.
RECURSIVE BMulSmallC(_, _, _)
BMulSmallC(a, m, c) ==
    IF a = << >> THEN (IF c = 0 THEN << >> ELSE <<c>>)
    ELSE LET x == Head(a) * m + c
         IN  <<x % Base>> \o BMulSmallC(Tail(a), m, x \div Base)

BMulSmall(a, m) == BNorm(BMulSmallC(a, m, 0))

BShlLimbs(a, k) == IF a = << >> THEN << >> ELSE [i \in 1..k |-> 0] \o a

RECURSIVE BMul(_, _)
BMul(a, b) ==
    IF a = << >> \/ b = << >> THEN << >>
    ELSE BAdd(BMulSmall(a, Head(b)), BShlLimbs(BMul(a, Tail(b)), 1))

\* a * 2^s.
BShl(a, s) == BShlLimbs(BMulSmall(a, Pow2(s % 15)), s \div 15)

\* Quotient (not yet normalised) and remainder of a by d, 0 < d <= Base.
RECURSIVE BDivRem(_, _)
BDivRem(a, d) ==
    IF a = << >> THEN [q |-> << >>, r |-> 0]
    ELSE LET hi == BDivRem(Tail(a), d)
             x  == hi.r * Base + Head(a)
         IN  [q |-> <<x \div d>> \o hi.q, r |-> x % d]

\* floor(a / 2^s).
BShr(a, s) ==
    LET k == s \div 15
    IN  IF k >= Len(a) THEN << >>
        ELSE BNorm(BDivRem(SubSeq(a, k + 1, Len(a)), Pow2(s % 15)).q)

RECURSIVE SmallBitLen(_)
SmallBitLen(n) == IF n = 0 THEN 0 ELSE 1 + SmallBitLen(n \div 2)

BitLen(a) ==
    IF a = << >> THEN 0 ELSE 15 * (Len(a) - 1) + SmallBitLen(a[Len(a)])

BIsOdd(a) == a # << >> /\ a[1] % 2 = 1

(***************************************************************************)
(* f64 values: (-1)^neg * m * 2^e, kept canonical (m odd, or zero) so that *)
(* equal values are equal records.                                         *)
(***************************************************************************)
Precision == 53

FZero == [neg |-> FALSE, m |-> << >>, e |-> 0]

RECURSIVE FStrip(_, _, _)
FStrip(neg, m, e) ==
    IF BIsOdd(m) THEN [neg |-> neg, m |-> m, e |-> e]
    ELSE IF Head(m) = 0 THEN FStrip(neg, Tail(m), e + 15)
    ELSE FStrip(neg, BShr(m, 1), e + 1)

FCanon(neg, m, e) == IF m = << >> THEN FZero ELSE FStrip(neg, m, e)

\* The f64 nearest to (-1)^neg * m * 2^e, ties to even.
RoundF64(neg, m, e) ==
    IF BitLen(m) <= Precision THEN FCanon(neg, m, e)
    ELSE LET s    == BitLen(m) - Precision
             q    == BShr(m, s)
             rem  == BSub(m, BShl(q, s))
             c    == BCmp(rem, BShl(<<1>>, s - 1))
             up   == c > 0 \/ (c = 0 /\ BIsOdd(q))
         IN  FCanon(neg, IF up THEN BAdd(q, <<1>>) ELSE q, e + s)

\* The exact real a - b, before rounding.
FSubExact(a, b) ==
    LET e0 == IF a.e < b.e THEN a.e ELSE b.e
        ma == BShl(a.m, a.e - e0)
        mb == BShl(b.m, b.e - e0)
    IN  IF a.neg # b.neg
        THEN [neg |-> a.neg, m |-> BAdd(ma, mb), e |-> e0]
        ELSE IF BCmp(ma, mb) >= 0
        THEN [neg |-> a.neg, m |-> BSub(ma, mb), e |-> e0]
        ELSE [neg |-> ~a.neg, m |-> BSub(mb, ma), e |-> e0]

\* The sign of a - b: -1, 0 or 1.
FCmp(a, b) ==
    LET d == FSubExact(a, b)
    IN  IF d.m = << >> THEN 0 ELSE IF d.neg THEN -1 ELSE 1

\* f64 subtraction and multiplication.
FSub(a, b) ==
    LET d == FSubExact(a, b) IN RoundF64(d.neg, d.m, d.e)

FMul(a, b) ==
    IF a.m = << >> \/ b.m = << >> THEN FZero
    ELSE RoundF64(a.neg # b.neg, BMul(a.m, b.m), a.e + b.e)

\* The f64 a decimal literal or a decimal field n/d denotes (d a power of
\* ten up to 1000): the quotient to 70 fractional bits with a sticky bit
\* for the discarded remainder, rounded once.
FromDecimal(n, d) ==
    IF n = 0 THEN FZero
    ELSE LET qr == BDivRem(BShl(BFromNat(n), 70), d)
             m  == BAdd(BShl(BNorm(qr.q), 1),
                        IF qr.r = 0 THEN << >> ELSE <<1>>)
         IN  RoundF64(FALSE, m, -71)


(***************************************************************************)
(* Bounds of the model.                                                    *)
(***************************************************************************)
NumTasks == 2

MaxTs == 1

MaxRows == 2

MaxLimit == 1

MaxTenths == 11

Tasks == 1..NumTasks

(***************************************************************************)
(* The candles table (initialize_db).  A row keeps the columns the         *)
(* handlers' queries compare or aggregate: timestamp (an instant, counted  *)
(* in seconds from 1), high, low and close; open and volume, which         *)
(* get_candles only copies into its answer, are left out.  The table       *)
(* declares no key and no check, and the CSV is copied in as it is, so     *)
(* neither unique timestamps nor high >= low is enforced on what it holds: *)
(* the second sample of prices is a row whose high lies below its low.     *)
(***************************************************************************)
F50 == FromDecimal(50, 1)

F150 == FromDecimal(150, 1)

SamplePrices ==
    {[high |-> F150, low |-> F50, close |-> F150],
     [high |-> F50, low |-> F150, close |-> F50]}

Row(t, high, low, close) ==
    [timestamp |-> t, high |-> high, low |-> low, close |-> close]

Rows == {Row(t, p.high, p.low, p.close) : t \in 1..MaxTs, p \in SamplePrices}

Tables == {S \in SUBSET Rows : Cardinality(S) <= MaxRows}

\* Further prices, for tables of one row: the tenths 0.1, 0.2, ... and the
\* f64 next above 1 (1.0000000000000002 in a CSV).
Tenths == {FromDecimal(k, 10) : k \in 1..MaxTenths}

OnePlusUlp == RoundF64(FALSE, BAdd(BShl(<<1>>, 52), <<1>>), -52)

F64s == {F50, F150, OnePlusUlp} \cup Tenths

OneRowTables ==
    {{Row(1, high, low, high)} : low \in F64s, high \in F64s}

\* An Option is << >> (None) or <<x>> (Some(x)).
None == << >>

Some(x) == <<x>>

\* strftime(timestamp, '%Y-%m-%d %H:%M:%S'): the string of a whole-second
\* instant, which is also what a well-formed start or end parameter is.
Strftime(t) == [string |-> t]

\* The start and end strings requests carry: well-formed timestamps, from
\* one second before the first row's instant on.
TsStrings == {Strftime(t) : t \in 0..MaxTs}

CandleQuery == [handler : {"get_candles"},
                limit : {None} \cup {Some(n) : n \in 0..MaxLimit}]

RangeQuery == [handler : {"get_fib"},
               start : {None} \cup {Some(s) : s \in TsStrings},
               end : {None} \cup {Some(s) : s \in TsStrings}]

Handlers == {"get_candles", "get_indicators", "get_fib"}

NoRequest == [handler |-> "none"]

NoResponse == [kind |-> "none"]

VARIABLES
    candles,   \* the rows of the candles table
    lock,      \* AppState.db's mutex: 0 when free, else the task holding it
    pc,        \* where each request task stands
    req,       \* each task's request: its handler, then the query it read
    resp       \* each task's result, NoResponse while none is computed

vars == <<candles, lock, pc, req, resp>>

(***************************************************************************)
(* Results.                                                                *)
(***************************************************************************)
internal_error(error) == [kind |-> "error", status |-> 500, msg |-> error]

StoreFailure == "IO Error: could not read the database file"

\* The default of an absent limit.
DefaultLimit == 500

(***************************************************************************)
(* get_candles: the rows in timestamp order, at most limit of them.  Rows  *)
(* of equal timestamp come in any order.                                   *)
(***************************************************************************)
OrderedByTimestamp(S) ==
    {s \in [1..Cardinality(S) -> S] :
        /\ \A i, j \in DOMAIN s : i # j => s[i] # s[j]
        /\ \A i, j \in DOMAIN s : i < j => s[i].timestamp <= s[j].timestamp}

Candle(row) ==
    [timestamp |-> Strftime(row.timestamp), high |-> row.high,
     low |-> row.low, close |-> row.close]

CandlesBody(ordered, limit) ==
    LET n == IF limit < Len(ordered) THEN limit ELSE Len(ordered)
    IN  [kind |-> "candles", status |-> 200,
         body |-> [i \in 1..n |-> Candle(ordered[i])]]

(***************************************************************************)
(* get_indicators: the statement names the common table expression ema     *)
(* inside ema's own definition, and the WITH that declares it is not WITH  *)
(* RECURSIVE.  DuckDB binds the body of a non-recursive expression before  *)
(* its name stands for anything, finds the reference circular and rejects  *)
(* the statement when it is prepared, whatever the table holds.            *)
(***************************************************************************)
BinderError ==
    "Binder Error: Circular reference to CTE ema, use WITH RECURSIVE"

PrepareIndicators == [ok |-> FALSE, error |-> BinderError]

(***************************************************************************)
(* get_fib.                                                                *)
(***************************************************************************)
\* The rows the WHERE clause keeps.
Between(S, start, end) ==
    {c \in S : start.string <= c.timestamp /\ c.timestamp <= end.string}

\* a <= b on the prices of the tables, computed once for each pair.
Le == [a \in F64s, b \in F64s |-> FCmp(a, b) <= 0]

\* min(low), max(high): SQL NULL (<< >>) when no row is selected.
MinLow(S) ==
    IF S = {} THEN << >>
    ELSE <<CHOOSE x \in {c.low : c \in S} : \A c \in S : Le[x, c.low]>>

MaxHigh(S) ==
    IF S = {} THEN << >>
    ELSE <<CHOOSE x \in {c.high : c \in S} : \A c \in S : Le[c.high, x]>>

InvalidColumnType == "Invalid column type Null at index: 0"

\* row.get into an f64: a NULL column is an error, not a number.
GetF64(column) ==
    IF column = << >> THEN [ok |-> FALSE, error |-> InvalidColumnType]
    ELSE [ok |-> TRUE, value |-> column[1]]

\* A query that answers an empty range from the whole table.
FibQueryWholeTableWhenEmpty(S, start, end) ==
    LET sel  == IF start # None /\ end # None
                   /\ Between(S, start[1], end[1]) # {}
                THEN Between(S, start[1], end[1])
                ELSE S
        low  == GetF64(MinLow(sel))
        high == GetF64(MaxHigh(sel))
    IN  IF ~low.ok THEN low
        ELSE IF ~high.ok THEN high
        ELSE [ok |-> TRUE, low |-> low.value, high |-> high.value]

\* query_row with its row closure: an error, or the pair (low, high).
FibQuery(S, start, end) ==
    LET sel  == IF start # None /\ end # None
                THEN Between(S, start[1], end[1])
                ELSE S
        low  == GetF64(MinLow(sel))
        high == GetF64(MaxHigh(sel))
    IN  IF ~low.ok THEN low
        ELSE IF ~high.ok THEN high
        ELSE [ok |-> TRUE, low |-> low.value, high |-> high.value]

Ratios ==
    <<FromDecimal(0, 1), FromDecimal(236, 1000), FromDecimal(382, 1000),
      FromDecimal(5, 10), FromDecimal(618, 1000), FromDecimal(786, 1000),
      FromDecimal(1, 1)>>

\* A level computed with the range taken the wrong way round.
FibValueRangeReversed(low, high, ratio) ==
    FSub(high, FMul(FSub(low, high), ratio))

FibValue(low, high, ratio) == FSub(high, FMul(FSub(high, low), ratio))

FibLevels(low, high) ==
    [kind |-> "fib", status |-> 200, low |-> low, high |-> high,
     levels |-> [i \in 1..Len(Ratios) |->
                    [ratio |-> Ratios[i],
                     value |-> FibValue(low, high, Ratios[i])]]]

\* The levels of every pair of prices of the tables, computed once for each.
Fib == [low \in F64s, high \in F64s |-> FibLevels(low, high)]

(***************************************************************************)
(* The request tasks.                                                      *)
(***************************************************************************)
Idle ==
    /\ lock = 0
    /\ pc = [t \in Tasks |-> "idle"]
    /\ req = [t \in Tasks |-> NoRequest]
    /\ resp = [t \in Tasks |-> NoResponse]

Init == candles \in Tables /\ Idle

\* The router hands a request to handler h, which goes to state.db.lock().
Call(t, h) ==
    /\ pc[t] = "idle"
    /\ pc' = [pc EXCEPT ![t] = "lock"]
    /\ req' = [req EXCEPT ![t] = [handler |-> h]]
    /\ UNCHANGED <<candles, lock, resp>>

\* A lock that is granted without waiting for its holder.
AcquireWithoutWaiting(t) ==
    /\ pc[t] = "lock"
    /\ lock' = t
    /\ pc' = [pc EXCEPT ![t] = "query"]
    /\ UNCHANGED <<candles, req, resp>>

\* state.db.lock().await completes.
Acquire(t) ==
    /\ pc[t] = "lock"
    /\ lock = 0
    /\ lock' = t
    /\ pc' = [pc EXCEPT ![t] = "query"]
    /\ UNCHANGED <<candles, req, resp>>

\* Each handler's statements under the lock, from prepare to the result it
\* is about to return.  A statement may also fail in the store itself.
get_candles(t) ==
    /\ pc[t] = "query"
    /\ req[t].handler = "get_candles"
    /\ \E query \in CandleQuery, failed \in BOOLEAN,
          ordered \in OrderedByTimestamp(candles) :
          /\ req' = [req EXCEPT ![t] = query]
          /\ resp' = [resp EXCEPT ![t] =
                        IF failed THEN internal_error(StoreFailure)
                        ELSE CandlesBody(ordered,
                                         IF query.limit = None
                                         THEN DefaultLimit
                                         ELSE query.limit[1])]
    /\ pc' = [pc EXCEPT ![t] = "return"]
    /\ UNCHANGED <<candles, lock>>

get_indicators(t) ==
    /\ pc[t] = "query"
    /\ req[t].handler = "get_indicators"
    /\ ~PrepareIndicators.ok
    /\ resp' = [resp EXCEPT ![t] = internal_error(PrepareIndicators.error)]
    /\ pc' = [pc EXCEPT ![t] = "return"]
    /\ UNCHANGED <<candles, lock, req>>

get_fib(t) ==
    /\ pc[t] = "query"
    /\ req[t].handler = "get_fib"
    /\ \E query \in RangeQuery, failed \in BOOLEAN :
          LET row == FibQuery(candles, query.start, query.end)
          IN  /\ req' = [req EXCEPT ![t] = query]
              /\ resp' = [resp EXCEPT ![t] =
                            IF failed THEN internal_error(StoreFailure)
                            ELSE IF ~row.ok THEN internal_error(row.error)
                            ELSE Fib[row.low, row.high]]
    /\ pc' = [pc EXCEPT ![t] = "return"]
    /\ UNCHANGED <<candles, lock>>

\* A return that drops the guard on the Ok path only.
ReturnKeepsLockOnError(t) ==
    /\ pc[t] = "return"
    /\ lock' = IF resp[t].kind = "error" THEN lock ELSE 0
    /\ pc' = [pc EXCEPT ![t] = "idle"]
    /\ req' = [req EXCEPT ![t] = NoRequest]
    /\ resp' = [resp EXCEPT ![t] = NoResponse]
    /\ UNCHANGED candles

\* The handler returns, by Ok or through a ?: the guard conn is dropped and
\* the result goes out as the response.
Return(t) ==
    /\ pc[t] = "return"
    /\ lock' = 0
    /\ pc' = [pc EXCEPT ![t] = "idle"]
    /\ req' = [req EXCEPT ![t] = NoRequest]
    /\ resp' = [resp EXCEPT ![t] = NoResponse]
    /\ UNCHANGED candles

Next ==
    \E t \in Tasks :
        \/ \E h \in Handlers : Call(t, h)
        \/ Acquire(t)
        \/ get_candles(t)
        \/ get_indicators(t)
        \/ get_fib(t)
        \/ Return(t)

Spec == Init /\ [][Next]_vars

\* One task serving get_fib requests over a table of one row, whose low and
\* high range over all the prices.
InitFib == candles \in OneRowTables /\ Idle

NextFib ==
    \/ Call(1, "get_fib")
    \/ Acquire(1)
    \/ get_fib(1)
    \/ Return(1)

SpecFib == InitFib /\ [][NextFib]_vars

Fairness ==
    \A t \in Tasks :
        /\ SF_vars(Acquire(t))
        /\ WF_vars(get_candles(t))
        /\ WF_vars(get_indicators(t))
        /\ WF_vars(get_fib(t))
        /\ WF_vars(Return(t))

FairSpec == Spec /\ Fairness

(***************************************************************************)
(* Properties.  A handler's result is read where it is about to return.    *)
(***************************************************************************)
Returning(t, h) == pc[t] = "return" /\ req[t].handler = h

\* Whether no two rows share a timestamp: the table is an Ordered Series.
OrderedSeries == \A c, d \in candles : c.timestamp = d.timestamp => c = d

\* The row of the earliest timestamp.
First == CHOOSE c \in candles : \A d \in candles : c.timestamp <= d.timestamp

\* C1: at most one request is between acquiring the connection lock and
\* returning, and a request that is querying, or holds a result it has not
\* yet returned, is the one holding the lock.
QueriesHoldTheLock ==
    /\ \A t \in Tasks : pc[t] \in {"query", "return"} => lock = t
    /\ \A t, u \in Tasks :
          pc[t] \in {"query", "return"} /\ pc[u] \in {"query", "return"}
             => t = u

\* A request queries while another waits for the lock.
QueryWhileAnotherWaits ==
    \E t, u \in Tasks : t # u /\ pc[t] = "query" /\ pc[u] = "lock"

\* C2: for an Ordered Series of N >= 0 candles get_indicators returns N
\* points, the i-th with the timestamp of the i-th candle in timestamp
\* order, and no error, unless the store itself fails.
IndicatorsOnePointPerCandle ==
    \A t \in Tasks :
        Returning(t, "get_indicators") /\ OrderedSeries =>
           \/ resp[t].kind = "error" /\ resp[t].msg = StoreFailure
           \/ /\ resp[t].kind = "points"
              /\ Len(resp[t].points) = Cardinality(candles)
              /\ \A i \in DOMAIN resp[t].points :
                    \E c \in candles :
                       /\ resp[t].points[i].timestamp = Strftime(c.timestamp)
                       /\ Cardinality({d \in candles :
                             d.timestamp <= c.timestamp}) = i

\* C3: a get_fib request with exactly one of start and end is rejected as
\* a bad request (unless the store itself fails): it is not answered with
\* levels of the whole table.
PartialBoundsRejected ==
    \A t \in Tasks :
        /\ Returning(t, "get_fib")
        /\ (req[t].start = None) # (req[t].end = None)
        => /\ resp[t].kind = "error"
           /\ resp[t].msg = StoreFailure \/ resp[t].status = 400

\* C4: get_fib returns levels only for a pair with high >= low.
LevelsOnlyForOrderedPair ==
    \A t \in Tasks :
        Returning(t, "get_fib") /\ resp[t].kind = "fib"
           => Le[resp[t].low, resp[t].high]

\* C5: the RSI of the first point is absent, and it is absent at every
\* point of a series whose closes never decrease.
RsiAbsentWithoutLoss ==
    \A t \in Tasks :
        Returning(t, "get_indicators") /\ OrderedSeries /\ candles # {} =>
           \/ resp[t].kind = "error" /\ resp[t].msg = StoreFailure
           \/ /\ resp[t].kind = "points"
              /\ resp[t].points[1].rsi_14 = None
              /\ (\A c, d \in candles :
                     c.timestamp < d.timestamp => Le[c.close, d.close])
                 => \A i \in DOMAIN resp[t].points :
                       resp[t].points[i].rsi_14 = None

\* C6: the EMA is present at every point and starts the fold at the first
\* close: EMA[0] = close[0].
EmaStartsAtFirstClose ==
    \A t \in Tasks :
        Returning(t, "get_indicators") /\ OrderedSeries /\ candles # {} =>
           \/ resp[t].kind = "error" /\ resp[t].msg = StoreFailure
           \/ /\ resp[t].kind = "points"
              /\ resp[t].points[1].ema_14 = Some(First.close)
              /\ \A i \in DOMAIN resp[t].points :
                    resp[t].points[i].ema_14 # None

\* C7: the SMA is present at every point, never absent, and
\* SMA[0] = close[0].
SmaStartsAtFirstClose ==
    \A t \in Tasks :
        Returning(t, "get_indicators") /\ OrderedSeries /\ candles # {} =>
           \/ resp[t].kind = "error" /\ resp[t].msg = StoreFailure
           \/ /\ resp[t].kind = "points"
              /\ resp[t].points[1].sma_14 = Some(First.close)
              /\ \A i \in DOMAIN resp[t].points :
                    resp[t].points[i].sma_14 # None

\* Levels returned for a pair with high >= low.
FibAnswer(t) ==
    /\ Returning(t, "get_fib")
    /\ resp[t].kind = "fib"
    /\ FCmp(resp[t].low, resp[t].high) <= 0

SevenLevels(t) ==
    /\ Len(resp[t].levels) = 7
    /\ \A i \in 1..7 : resp[t].levels[i].ratio = Ratios[i]
    /\ resp[t].levels[1].value = resp[t].high

\* C8 as stated: seven levels at the seven ratios in order, the value at
\* ratio 0 equal to high, the value at ratio 1.0 equal to low, and the
\* values strictly decreasing when high > low.
FibEndpointsExact ==
    \A t \in Tasks :
        FibAnswer(t) =>
           /\ SevenLevels(t)
           /\ resp[t].levels[7].value = resp[t].low
           /\ resp[t].low # resp[t].high
              => \A i \in 1..6 :
                    FCmp(resp[t].levels[i + 1].value,
                         resp[t].levels[i].value) < 0

\* |x - y| * 2^52 <= bound: x is y to within the rounding of bound.
WithinRounding(x, y, bound) ==
    LET d == FSubExact(x, y)
    IN  FCmp([neg |-> FALSE, m |-> d.m, e |-> d.e + 52], bound) <= 0

Twice(x) == [neg |-> x.neg, m |-> x.m, e |-> x.e + 1]

\* C8, amended: seven levels at the seven ratios in order, the value at
\* ratio 0 equal to high; the value at ratio 1.0 is low to within the
\* rounding of high, and is low itself when high <= 2 * low; the values
\* never increase with the ratio, and the last is below the first when
\* high > low.
FibEndpointsRounded ==
    \A t \in Tasks :
        FibAnswer(t) =>
           /\ SevenLevels(t)
           /\ WithinRounding(resp[t].levels[7].value, resp[t].low,
                             resp[t].high)
           /\ FCmp(resp[t].high, Twice(resp[t].low)) <= 0
              => resp[t].levels[7].value = resp[t].low
           /\ \A i \in 1..6 :
                 FCmp(resp[t].levels[i + 1].value,
                      resp[t].levels[i].value) <= 0
           /\ resp[t].low # resp[t].high
              => FCmp(resp[t].levels[7].value,
                      resp[t].levels[1].value) < 0

\* The levels of low = 50, high = 150: 150 at ratio 0, 100 at 0.5, 50 at 1.
Fib50To150 ==
    \E t \in Tasks :
        /\ FibAnswer(t)
        /\ resp[t].low = F50 /\ resp[t].high = F150
        /\ resp[t].levels[1].value = F150
        /\ resp[t].levels[4].value = FromDecimal(100, 1)
        /\ resp[t].levels[7].value = F50

\* C9: the lock is held only by a request between acquiring it and
\* returning, on every path, and under fair granting of the lock every
\* request that waits for it is served: it returns its response.
LockReleasedAndServed ==
    /\ [](\A t \in Tasks : lock = t => pc[t] \in {"query", "return"})
    /\ \A t \in Tasks : pc[t] = "lock" ~> pc[t] = "idle"

\* A request waits for the lock while the holder is about to return an
\* internal error.
WaitsBehindFailedRequest ==
    \E t, u \in Tasks :
        /\ pc[t] = "lock"
        /\ pc[u] = "return" /\ lock = u /\ resp[u].kind = "error"

\* Whether the request of t selects no row.
EmptySelection(t) ==
    \/ candles = {}
    \/ /\ req[t].start # None /\ req[t].end # None
       /\ ~\E c \in candles :
             /\ req[t].start[1].string <= c.timestamp
             /\ c.timestamp <= req[t].end[1].string

\* C10: a get_fib request whose selection is empty gets a 500 with a
\* message, never levels, and no step changes the table.
EmptySelectionIs500 ==
    /\ [](\A t \in Tasks :
             Returning(t, "get_fib") /\ EmptySelection(t) =>
                /\ resp[t].kind = "error"
                /\ resp[t].status = 500
                /\ resp[t].msg # "")
    /\ [][candles' = candles]_vars

\* Both bounds given, rows in the table, none of them in the range: the
\* NULL of min(low) is the error returned.
EmptyRangeOfNonEmptyTable ==
    \E t \in Tasks :
        /\ Returning(t, "get_fib")
        /\ candles # {}
        /\ req[t].start # None /\ req[t].end # None
        /\ EmptySelection(t)
        /\ resp[t] = internal_error(InvalidColumnType)

=============================================================================
